---- MODULE Spec2Model ----
(***************************************************************************)
(* A model of discord-rpc-new: the IPC framing codec and pipe connector of *)
(* SocketConnection (src/src/connection.ts, the later of the two versions  *)
(* of the class in that file), the protocol dispatcher / request           *)
(* correlator of Client (src/unnamed/part_001) and PresenceBuilder         *)
(* (src/src/builder.ts).                                                   *)
(*                                                                         *)
(* The specifications of the module:                                       *)
(*   SpecCodec    send() and the socket 'data' handler, at byte level      *)
(*   SpecConnect  connect() and its retry over the pipe indices            *)
(*   Spec         Client: login, handleIncoming, request, setActivity,     *)
(*                destroy, ping, at message level                          *)
(*   SpecLive     Spec with the fairness of the event loop                 *)
(*   SpecBuilder  PresenceBuilder (src/src/builder.ts): setters and build  *)
(*   SpecTimestamps  PresenceBuilder: the setters of timestamps and build  *)
(***************************************************************************)
EXTENDS Integers, Sequences, FiniteSets, TLC

VARIABLES
  \* ---- SocketConnection, byte level (SpecCodec)
  frames,       \* the (opcode, payload) pairs handed to send(), in order
  stream,       \* the bytes those sends put on the socket
  pos,          \* how many bytes of stream have been delivered in 'data' events
  buffer,       \* SocketConnection.buffer
  calls,        \* invocations of dataCallback so far: <<op, payload>>
  fragmented,   \* some 'data' event ended with part of a frame in the buffer
  raises,       \* how many invocations of dataCallback threw
  parseRaised,  \* some JSON.parse in the handler threw
  alive,        \* the process is still running
  \* ---- SocketConnection.connect (SpecConnect)
  sockets,      \* every socket net.connect() has returned, in order
  socket,       \* SocketConnection.socket: an index into sockets, 0 = undefined
  connectCalls, \* the connect() calls made from outside, each with its promise
  uncaught,     \* an 'error' event was emitted on a socket with no listener
  \* ---- Client (Spec)
  isReady,      \* Client.isReady
  loginState,   \* the promise of login(): "none" (not called), "connecting",
                \* "awaitReady" (handshake sent), "resolved", "rejected"
  loginData,    \* the value login() resolved with
  sock,         \* connection.socket: "none", "connecting", "open", "destroyed"
  readyListener, \* login's once('ready') listener is registered
  errorListener, \* the application has registered an 'error' listener
  requests,     \* the request() calls, in order: the command the handler
                \* of each is registered for ("none" once removed) and the
                \* state and value of its promise
  timers,       \* the heartbeat intervals that are running
  destroyState, \* destroy(): "none", "waiting" (grace period), "done"
  clearWritten, \* destroy() has put its clear-presence frame on the socket
  last,         \* what the last step of the Client did: the call made, the
                \* message handled, the events emitted, whether it threw,
                \* the promises it settled, the frame it put on the socket,
                \* whether it warned
  \* ---- PresenceBuilder (SpecBuilder)
  thePayload,   \* PresenceBuilder.payload
  built,        \* build() has returned the payload object to its caller
  result        \* the last call on the builder: method, argument, outcome

codecVars ==
  <<frames, stream, pos, buffer, calls, fragmented, raises, parseRaised, alive>>

connVars == <<sockets, socket, connectCalls, uncaught>>

clientVars ==
  <<isReady, loginState, loginData, sock, readyListener, errorListener,
    requests, timers, destroyState, clearWritten, last>>

builderVars == <<thePayload, built, result>>

vars == <<codecVars, connVars, clientVars, builderVars>>

(***************************************************************************)
(* Bounds of the model.                                                    *)
(***************************************************************************)
\* Longest sequence of frames put on the wire in one run of SpecCodec.
MaxFrames == 2
\* Most members of a payload object.
MaxFields == 2
\* Most invocations of dataCallback that throw in one run of SpecCodec.
MaxRaises == 1
\* Most connect() calls made on one SocketConnection in SpecConnect.
MaxConnects == 2
\* Most request() calls made on one Client in Spec.
MaxRequests == 2

(***************************************************************************)
(* OpCode (src/src/types/opcodes.ts is not part of the sources at hand;    *)
(* the values are those of the wire table).                                *)
(***************************************************************************)
OP_HANDSHAKE == 0
OP_FRAME == 1
OP_CLOSE == 2
OP_PING == 3
OP_PONG == 4
OpCodes == {OP_HANDSHAKE, OP_FRAME, OP_CLOSE, OP_PING, OP_PONG}

(***************************************************************************)
(* Text is a sequence of code points, a Buffer a sequence of bytes.        *)
(*   34 = '"'   44 = ','   58 = ':'   92 = '\'   123 = '{'   125 = '}'     *)
(*   97 = 'a'   98 = 'b'   233 = U+00E9 (two bytes in UTF-8)               *)
(***************************************************************************)
KeyTexts == {<<97>>, <<98, 34>>}
ValueTexts == {<<>>, <<34>>, <<92>>, <<97, 233>>}

\* A payload object: its members in insertion order, keys distinct.
Members == KeyTexts \X ValueTexts

RECURSIVE ObjectsOfSize(_)
ObjectsOfSize(n) ==
  IF n = 0 THEN {<<>>}
  ELSE {Append(o, m) : o \in ObjectsOfSize(n - 1), m \in Members}

DistinctKeys(o) == \A i, j \in 1..Len(o) : i # j => o[i][1] # o[j][1]

Payloads ==
  {o \in UNION {ObjectsOfSize(n) : n \in 0..MaxFields} : DistinctKeys(o)}

(***************************************************************************)
(* JSON.stringify(payload) for an object whose values are strings.         *)
(***************************************************************************)
RECURSIVE EscapeText(_)
EscapeText(s) ==
  IF s = <<>> THEN <<>>
  ELSE (IF Head(s) \in {34, 92} THEN <<92, Head(s)>> ELSE <<Head(s)>>)
       \o EscapeText(Tail(s))

QuoteText(s) == <<34>> \o EscapeText(s) \o <<34>>

RECURSIVE StringifyMembers(_)
StringifyMembers(o) ==
  IF o = <<>> THEN <<>>
  ELSE QuoteText(o[1][1]) \o <<58>> \o QuoteText(o[1][2])
       \o (IF Len(o) > 1 THEN <<44>> ELSE <<>>)
       \o StringifyMembers(Tail(o))

JSONStringify(o) == <<123>> \o StringifyMembers(o) \o <<125>>

(***************************************************************************)
(* Buffer.from(text): UTF-8, one byte below U+0080, two below U+0800.      *)
(***************************************************************************)
RECURSIVE Utf8Encode(_)
Utf8Encode(s) ==
  IF s = <<>> THEN <<>>
  ELSE (IF Head(s) < 128 THEN <<Head(s)>>
        ELSE <<192 + (Head(s) \div 64), 128 + (Head(s) % 64)>>)
       \o Utf8Encode(Tail(s))

(***************************************************************************)
(* buf.toString(): UTF-8 decoding; a byte that starts no sequence of the   *)
(* two forms above decodes to U+FFFD.                                      *)
(***************************************************************************)
RECURSIVE Utf8Decode(_)
Utf8Decode(b) ==
  IF b = <<>> THEN <<>>
  ELSE IF Head(b) < 128 THEN <<Head(b)>> \o Utf8Decode(Tail(b))
  ELSE IF /\ Head(b) >= 194 /\ Head(b) < 224 /\ Len(b) >= 2
          /\ b[2] >= 128 /\ b[2] < 192
       THEN <<(Head(b) - 192) * 64 + (b[2] - 128)>> \o Utf8Decode(Tail(Tail(b)))
  ELSE <<65533>> \o Utf8Decode(Tail(b))

(***************************************************************************)
(* JSON.parse(text) for the same grammar.  ok = FALSE is the SyntaxError.  *)
(***************************************************************************)
ParseFail == [ok |-> FALSE, val |-> <<>>, next |-> 0]

\* The characters of a string literal after its opening quote at t[i - 1].
RECURSIVE ScanString(_, _, _)
ScanString(t, i, acc) ==
  IF i > Len(t) THEN ParseFail
  ELSE IF t[i] = 34 THEN [ok |-> TRUE, val |-> acc, next |-> i + 1]
  ELSE IF t[i] = 92
       THEN IF i + 1 <= Len(t) /\ t[i + 1] \in {34, 92}
            THEN ScanString(t, i + 2, Append(acc, t[i + 1]))
            ELSE ParseFail
  ELSE ScanString(t, i + 1, Append(acc, t[i]))

ParseString(t, i) ==
  IF i <= Len(t) /\ t[i] = 34 THEN ScanString(t, i + 1, <<>>) ELSE ParseFail

\* A repeated key keeps its first position and takes the last value.
PutMember(o, k, v) ==
  IF \E i \in 1..Len(o) : o[i][1] = k
  THEN [i \in 1..Len(o) |-> IF o[i][1] = k THEN <<k, v>> ELSE o[i]]
  ELSE Append(o, <<k, v>>)

RECURSIVE ParseMembers(_, _, _)
ParseMembers(t, i, acc) ==
  LET k == ParseString(t, i) IN
  IF ~k.ok \/ k.next > Len(t) \/ t[k.next] # 58 THEN ParseFail
  ELSE LET v == ParseString(t, k.next + 1) IN
       IF ~v.ok \/ v.next > Len(t) THEN ParseFail
       ELSE LET o == PutMember(acc, k.val, v.val) IN
            IF t[v.next] = 44 THEN ParseMembers(t, v.next + 1, o)
            ELSE IF t[v.next] = 125 /\ v.next = Len(t)
                 THEN [ok |-> TRUE, val |-> o, next |-> v.next + 1]
            ELSE ParseFail

JSONParse(t) ==
  IF Len(t) < 2 \/ t[1] # 123 THEN ParseFail
  ELSE IF t[2] = 125
       THEN (IF Len(t) = 2 THEN [ok |-> TRUE, val |-> <<>>, next |-> 3]
             ELSE ParseFail)
  ELSE ParseMembers(t, 2, <<>>)

(***************************************************************************)
(* header.writeUInt32LE(n, off) and buffer.readUInt32LE(off).              *)
(***************************************************************************)
WriteUInt32LE(n) ==
  <<n % 256, (n \div 256) % 256, (n \div 65536) % 256, (n \div 16777216) % 256>>

ReadUInt32LE(b, off) ==
  b[off + 1] + 256 * b[off + 2] + 65536 * b[off + 3] + 16777216 * b[off + 4]

(***************************************************************************)
(* SocketConnection.send(op, payload): the buffer given to socket.write.   *)
(***************************************************************************)
SendCharLength(op, payload) ==
  LET text == JSONStringify(payload) IN
  WriteUInt32LE(op) \o WriteUInt32LE(Len(text)) \o Utf8Encode(text)

SendLengthOfWholeFrame(op, payload) ==
  LET encoded == Utf8Encode(JSONStringify(payload)) IN
  WriteUInt32LE(op) \o WriteUInt32LE(8 + Len(encoded)) \o encoded

Send(op, payload) ==
  LET encoded == Utf8Encode(JSONStringify(payload)) IN
  WriteUInt32LE(op) \o WriteUInt32LE(Len(encoded)) \o encoded

(***************************************************************************)
(* The 'data' handler of setupBufferHandler.                               *)
(***************************************************************************)
AppendChunkDropsPartial(buf, chunk) == chunk

\* this.buffer = Buffer.concat([this.buffer, chunk])
AppendChunk(buf, chunk) == buf \o chunk

\* The while loop.  raiseAt = k > 0: the k-th invocation of dataCallback in
\* this event throws; the exception leaves the handler before the consumed
\* packet is cut off the buffer.  raised is "no", "callback" or "parse".
RECURSIVE Drain(_, _, _)
Drain(buf, out, raiseAt) ==
  IF Len(buf) < 8 THEN [buffer |-> buf, calls |-> out, raised |-> "no"]
  ELSE LET op == ReadUInt32LE(buf, 0)
           len == ReadUInt32LE(buf, 4)
       IN
       IF Len(buf) >= 8 + len
       THEN LET packetData == SubSeq(buf, 9, 8 + len)
                payload == JSONParse(Utf8Decode(packetData))
            IN
            IF ~payload.ok
            THEN [buffer |-> buf, calls |-> out, raised |-> "parse"]
            ELSE IF raiseAt = 1
                 THEN [buffer |-> buf,
                       calls |-> Append(out, <<op, payload.val>>),
                       raised |-> "callback"]
            ELSE Drain(SubSeq(buf, 9 + len, Len(buf)),
                       Append(out, <<op, payload.val>>),
                       IF raiseAt = 0 THEN 0 ELSE raiseAt - 1)
       ELSE [buffer |-> buf, calls |-> out, raised |-> "no"]

OnData(buf, chunk, raiseAt) == Drain(AppendChunk(buf, chunk), <<>>, raiseAt)

(***************************************************************************)
(* SpecCodec: a sequence of frames is sent, and the bytes arrive in 'data' *)
(* events of any sizes.                                                    *)
(***************************************************************************)
AllFrames == OpCodes \X Payloads

\* Frames of the streams that hold more than one frame.
StreamFrames ==
  { <<OP_FRAME, <<>>>>,
    <<OP_CLOSE, << <<<<98, 34>>, <<97, 233>>>> >>>> }

RECURSIVE SeqsOfLen(_, _)
SeqsOfLen(S, n) ==
  IF n = 0 THEN {<<>>}
  ELSE {Append(s, x) : s \in SeqsOfLen(S, n - 1), x \in S}

FrameSeqs ==
  {<<f>> : f \in AllFrames} \cup UNION {SeqsOfLen(StreamFrames, n) : n \in 2..MaxFrames}

RECURSIVE Wire(_)
Wire(fs) == IF fs = <<>> THEN <<>> ELSE Send(fs[1][1], fs[1][2]) \o Wire(Tail(fs))

\* The codec at rest, for the specifications that do not exercise it.
InitCodecIdle ==
  /\ frames = <<>> /\ stream = <<>> /\ pos = 0 /\ buffer = <<>> /\ calls = <<>>
  /\ fragmented = FALSE /\ raises = 0 /\ parseRaised = FALSE /\ alive = TRUE

InitCodec ==
  /\ frames \in FrameSeqs
  /\ stream = Wire(frames)
  /\ pos = 0
  /\ buffer = <<>>
  /\ calls = <<>>
  /\ fragmented = FALSE
  /\ raises = 0
  /\ parseRaised = FALSE
  /\ alive = TRUE

\* One 'data' event carrying the next n bytes.  k = 0: dataCallback returns
\* normally every time it is invoked; k > 0: its k-th invocation in this event
\* throws.  An exception that leaves the handler is uncaught: the process ends,
\* unless an 'uncaughtException' handler keeps it running (survives).
DataEvent(n, k, survives) ==
  /\ alive
  /\ pos + n <= Len(stream)
  /\ (k > 0) => (raises < MaxRaises)
  /\ LET r == OnData(buffer, SubSeq(stream, pos + 1, pos + n), k) IN
     /\ (k > 0) => (r.raised = "callback")
     /\ buffer' = r.buffer
     /\ calls' = calls \o r.calls
     /\ fragmented' = (fragmented \/ (r.raised = "no" /\ r.buffer # <<>>))
     /\ raises' = (IF r.raised = "callback" THEN raises + 1 ELSE raises)
     /\ parseRaised' = (parseRaised \/ r.raised = "parse")
     /\ alive' = (r.raised = "no" \/ survives)
  /\ pos' = pos + n
  /\ UNCHANGED <<frames, stream, connVars, clientVars, builderVars>>

Data(n) == DataEvent(n, 0, TRUE)

DataRaise(n, k, survives) == DataEvent(n, k, survives)

NextCodec ==
  \/ \E n \in 1..(Len(stream) - pos) : Data(n)
  \/ \E n \in 1..(Len(stream) - pos), k \in 1..MaxFrames, s \in BOOLEAN :
       DataRaise(n, k, s)

(***************************************************************************)
(* A peer that announces a payload of 2^30 bytes (1 GiB) in a frame        *)
(* header, after the frames of a well-formed stream, and goes on sending.  *)
(***************************************************************************)
OversizedHeader == WriteUInt32LE(OP_FRAME) \o <<0, 0, 0, 64>>

\* The bytes the peer sends after the header: far fewer than announced.
TrailingBytes == UNION {SeqsOfLen({0, 123}, n) : n \in 0..MaxFrames}

InitOversized ==
  /\ frames \in {<<>>} \cup {<<f>> : f \in StreamFrames}
  /\ \E tail \in TrailingBytes : stream = Wire(frames) \o OversizedHeader \o tail
  /\ pos = 0
  /\ buffer = <<>>
  /\ calls = <<>>
  /\ fragmented = FALSE
  /\ raises = 0
  /\ parseRaised = FALSE
  /\ alive = TRUE

(***************************************************************************)
(* SpecConnect: SocketConnection.connect(index) and the events of the      *)
(* sockets it opens.                                                       *)
(***************************************************************************)
\* The last pipe index: connect(index) throws when index > 9.
LastPipeIndex == 9

\* Error codes of a socket that is still connecting, and of an open one.
ConnectErrorCodes == {"ENOENT", "ECONNREFUSED", "EACCES"}
IOErrorCodes == {"ECONNRESET"}

GivesUpAtLastIndex(index) == index >= LastPipeIndex

\* if (index > 9) throw new Error('Could not find a running Discord instance...')
GivesUp(index) == index > LastPipeIndex

RetriesOnAnyError(code) == TRUE

\* if (err.code === 'ENOENT') resolve(this.connect(index + 1)) else reject(err)
Retries(code) == code = "ENOENT"

\* socket.destroy() followed by socket.removeAllListeners()
Disposed(sk) ==
  [sk EXCEPT !.state = "destroyed", !.onConnect = FALSE, !.onError = FALSE,
             !.onData = 0]

NewSocket(c, index) ==
  [call |-> c, index |-> index, state |-> "connecting",
   onConnect |-> TRUE, onError |-> TRUE, onData |-> 0]

ConnectBodyKeepsOldSocket(c, index, sks, cur, cs) ==
  IF GivesUp(index)
  THEN [sockets |-> sks, socket |-> cur,
        calls |-> [cs EXCEPT ![c].status = "rejected", ![c].error = "EXHAUSTED"]]
  ELSE [sockets |-> Append(sks, NewSocket(c, index)),
        socket |-> Len(sks) + 1,
        calls |-> [cs EXCEPT ![c].attempts = Append(@, index)]]

\* The body of connect(index) run for the call c: the state it leaves.
ConnectBody(c, index, sks, cur, cs) ==
  IF GivesUp(index)
  THEN [sockets |-> sks, socket |-> cur,
        calls |-> [cs EXCEPT ![c].status = "rejected", ![c].error = "EXHAUSTED"]]
  ELSE LET cleaned == IF cur # 0 THEN [sks EXCEPT ![cur] = Disposed(sks[cur])]
                      ELSE sks
       IN [sockets |-> Append(cleaned, NewSocket(c, index)),
           socket |-> Len(sks) + 1,
           calls |-> [cs EXCEPT ![c].attempts = Append(@, index)]]

NewCall ==
  [status |-> "pending", error |-> "none", attempts |-> <<>>, outcomes |-> <<>>]

InitConnect ==
  /\ sockets = <<>>
  /\ socket = 0
  /\ connectCalls = <<>>
  /\ uncaught = FALSE

\* connection.connect(), index defaulting to 0.
Connect ==
  /\ ~uncaught
  /\ Len(connectCalls) < MaxConnects
  /\ LET c == Len(connectCalls) + 1
         r == ConnectBody(c, 0, sockets, socket, Append(connectCalls, NewCall))
     IN /\ sockets' = r.sockets
        /\ socket' = r.socket
        /\ connectCalls' = r.calls
  /\ UNCHANGED <<uncaught, codecVars, clientVars, builderVars>>

\* The socket s emits 'connect': the once('connect') listener.
SocketConnected(s) ==
  /\ ~uncaught
  /\ sockets[s].state = "connecting"
  /\ LET sk == sockets[s]
         c == sk.call
     IN IF sk.onConnect
        THEN /\ sockets' = [sockets EXCEPT
                              ![s] = [sk EXCEPT !.state = "open", !.onConnect = FALSE,
                                                !.onError = FALSE],
                              ![socket].onData = @ + 1]
             /\ connectCalls' =
                  [connectCalls EXCEPT ![c].status =
                     IF @ = "pending" THEN "resolved" ELSE @,
                                       ![c].outcomes = Append(@, "connect")]
        ELSE /\ sockets' = [sockets EXCEPT ![s].state = "open"]
             /\ UNCHANGED connectCalls
  /\ UNCHANGED <<socket, uncaught, codecVars, clientVars, builderVars>>

\* The socket s emits 'error' with err.code = code, and node destroys it: the
\* once('error') listener if it is still attached, an uncaught exception if
\* the socket has no 'error' listener.
SocketError(s, code) ==
  /\ ~uncaught
  /\ \/ sockets[s].state = "connecting" /\ code \in ConnectErrorCodes
     \/ sockets[s].state = "open" /\ code \in IOErrorCodes
  /\ LET sk == sockets[s]
         c == sk.call
         failed == [sockets EXCEPT ![s].state = "destroyed", ![s].onError = FALSE]
         \* this.socket?.destroy()
         destroyed == IF socket # 0 THEN [failed EXCEPT ![socket].state = "destroyed"]
                      ELSE failed
         noted == [connectCalls EXCEPT ![c].outcomes = Append(@, code)]
     IN IF sk.onError
        THEN IF Retries(code)
             THEN LET r == ConnectBody(c, sk.index + 1, destroyed, socket, noted) IN
                  /\ sockets' = r.sockets
                  /\ socket' = r.socket
                  /\ connectCalls' = r.calls
                  /\ UNCHANGED uncaught
             ELSE /\ sockets' = destroyed
                  /\ connectCalls' =
                       [noted EXCEPT ![c].status = IF @ = "pending" THEN "rejected" ELSE @,
                                     ![c].error = IF noted[c].status = "pending"
                                                  THEN code ELSE @]
                  /\ UNCHANGED <<socket, uncaught>>
        ELSE /\ sockets' = failed
             /\ uncaught' = TRUE
             /\ UNCHANGED <<socket, connectCalls>>
  /\ UNCHANGED <<codecVars, clientVars, builderVars>>

\* connection.destroy(): this.socket?.destroy()
DestroyConnection ==
  /\ ~uncaught
  /\ socket # 0
  /\ sockets[socket].state # "destroyed"
  /\ sockets' = [sockets EXCEPT ![socket].state = "destroyed"]
  /\ UNCHANGED <<socket, connectCalls, uncaught, codecVars, clientVars, builderVars>>

NextConnect ==
  \/ Connect
  \/ \E s \in 1..Len(sockets) : SocketConnected(s)
  \/ \E s \in 1..Len(sockets), code \in ConnectErrorCodes \cup IOErrorCodes :
       SocketError(s, code)
  \/ DestroyConnection

(***************************************************************************)
(* Spec: the Client, one message per step.                                 *)
(***************************************************************************)
\* Command (src/src/types is not part of the sources at hand): the commands
\* request() is called with, by authorize and authenticate, and SET_ACTIVITY.
RequestCommands == {"AUTHORIZE", "AUTHENTICATE"}
Commands == RequestCommands \cup {"SET_ACTIVITY"}

\* Values of the inputs: the activity given to setActivity, the data of a READY
\* event, the data of a reply.
Activities == {"activity"}
ReadyData == {"alice", "bob"}
ReplyData == {"r1", "r2"}

\* A nonce is crypto.randomUUID(): that of the r-th request() is r, that of
\* any other frame, and any UUID that is no request's, is 0.
OtherNonce == 0

\* ---- Frames written by the Client
HandshakeFrame == [op |-> OP_HANDSHAKE, cmd |-> "none", nonce |-> OtherNonce, arg |-> "client_id"]
SetActivityFrame(a) == [op |-> OP_FRAME, cmd |-> "SET_ACTIVITY", nonce |-> OtherNonce, arg |-> a]
ClearActivityFrame == SetActivityFrame("null")
RequestFrame(cmd, n) == [op |-> OP_FRAME, cmd |-> cmd, nonce |-> n, arg |-> "args"]
PingFrame == [op |-> OP_PING, cmd |-> "none", nonce |-> OtherNonce, arg |-> "none"]

NoFrame == [op |-> -1, cmd |-> "none", nonce |-> OtherNonce, arg |-> "none"]

\* this.socket?.write(w): nothing without a socket or on a destroyed one; a
\* socket that is still connecting queues the bytes.
SocketWrite(w) == IF sock \in {"connecting", "open"} THEN w ELSE NoFrame

\* ---- Messages from the peer
ReadyMessage(d) == [op |-> OP_FRAME, cmd |-> "DISPATCH", evt |-> "READY", nonce |-> OtherNonce, data |-> d]
ReplyMessage(c, n, d) == [op |-> OP_FRAME, cmd |-> c, evt |-> "none", nonce |-> n, data |-> d]
ErrorMessage(c, n) == [op |-> OP_FRAME, cmd |-> c, evt |-> "ERROR", nonce |-> n, data |-> "message"]
OpMessage(op) == [op |-> op, cmd |-> "none", evt |-> "none", nonce |-> OtherNonce, data |-> "none"]
NoMessage == [op |-> -1, cmd |-> "none", evt |-> "none", nonce |-> OtherNonce, data |-> "none"]

\* The peer answers a request with the request's own command and nonce; it may
\* answer it again once it is settled, and may send frames with a nonce that
\* is no request's.
ReplyKeys ==
  {<<IF requests[r].on = "none" THEN "AUTHORIZE" ELSE requests[r].on, r>> :
     r \in 1..Len(requests)}
  \cup ({"AUTHORIZE", "SET_ACTIVITY"} \X {OtherNonce})

PeerMessages ==
  {ReadyMessage(d) : d \in ReadyData}
  \cup {ReplyMessage(k[1], k[2], d) : k \in ReplyKeys, d \in ReplyData}
  \cup {ErrorMessage(k[1], k[2]) : k \in ReplyKeys}
  \cup {OpMessage(op) : op \in {OP_CLOSE, OP_PING, OP_PONG}}

\* ---- handleIncoming
\* The promise of login(), among the promises a step settles; that of the
\* r-th request() is r.
LoginPromise == 0

\* this.emit('ready', data.data): the once('ready') listener of login.
EmitReady(st, d) ==
  IF st.readyListener
  THEN [st EXCEPT !.readyListener = FALSE, !.timers = @ + 1,
                  !.loginState = "resolved", !.loginData = d,
                  !.emitted = @ \cup {"ready"}, !.settled = @ \cup {LoginPromise}]
  ELSE [st EXCEPT !.emitted = @ \cup {"ready"}]

ReplyHandlerIgnoresNonce(rq, r, f) ==
  [rq EXCEPT !.on = "none",
             !.status = IF f.evt = "ERROR" THEN "rejected" ELSE "resolved",
             !.data = f.data]

ReplyHandlerStaysRegistered(rq, r, f) ==
  IF f.nonce = r
  THEN [rq EXCEPT !.status = IF f.evt = "ERROR" THEN "rejected" ELSE "resolved",
                  !.data = f.data]
  ELSE rq

ReplyHandlerKeepsListenerOnError(rq, r, f) ==
  IF f.nonce = r
  THEN IF f.evt = "ERROR"
       THEN [rq EXCEPT !.status = "rejected", !.data = f.data]
       ELSE [rq EXCEPT !.on = "none", !.status = "resolved", !.data = f.data]
  ELSE rq

\* The handler request() registered for its command, given the frame.
ReplyHandler(rq, r, f) ==
  IF f.nonce = r
  THEN [rq EXCEPT !.on = "none",
                  !.status = IF f.evt = "ERROR" THEN "rejected" ELSE "resolved",
                  !.data = f.data]
  ELSE rq

\* The promises among 1..Len(before) that differ in state.
Settled(before, after) ==
  {r \in 1..Len(before) : after[r].status # before[r].status}

EmitCommandRejectsOthers(st, f) ==
  LET after == [r \in 1..Len(st.requests) |->
                  IF st.requests[r].on = f.cmd
                  THEN [st.requests[r] EXCEPT !.on = "none",
                          !.status = IF f.nonce = r /\ f.evt # "ERROR"
                                     THEN "resolved" ELSE "rejected",
                          !.data = f.data]
                  ELSE st.requests[r]]
  IN [st EXCEPT !.requests = after,
                !.settled = @ \cup Settled(st.requests, after)]

\* this.emit(data.cmd, data): every handler registered for the command runs.
EmitCommand(st, f) ==
  LET after == [r \in 1..Len(st.requests) |->
                  IF st.requests[r].on = f.cmd
                  THEN ReplyHandler(st.requests[r], r, f) ELSE st.requests[r]]
  IN [st EXCEPT !.requests = after,
                !.settled = @ \cup Settled(st.requests, after)]

ClientState ==
  [isReady |-> isReady, loginState |-> loginState, loginData |-> loginData,
   readyListener |-> readyListener, requests |-> requests, timers |-> timers,
   emitted |-> {}, raised |-> FALSE, settled |-> {}]

HandleIncomingReadyOnAnyFrame(f) ==
  IF f.op = OP_CLOSE THEN [ClientState EXCEPT !.emitted = {"disconnected"}]
  ELSE IF f.op = OP_PING THEN [ClientState EXCEPT !.emitted = {"ping"}]
  ELSE IF f.op = OP_FRAME
  THEN LET st1 == EmitReady([ClientState EXCEPT !.isReady = TRUE], f.data)
       IN IF f.evt = "ERROR"
          THEN IF errorListener
               THEN EmitCommand([st1 EXCEPT !.emitted = @ \cup {"error"}], f)
               ELSE [st1 EXCEPT !.raised = TRUE]
          ELSE EmitCommand(st1, f)
  ELSE ClientState

HandleIncomingPingLeavesReady(f) ==
  IF f.op = OP_CLOSE THEN [ClientState EXCEPT !.emitted = {"disconnected"}]
  ELSE IF f.op = OP_PING
  THEN [ClientState EXCEPT !.isReady = FALSE, !.emitted = {"ping"}]
  ELSE IF f.op = OP_FRAME
  THEN LET st1 == IF f.evt = "READY"
                  THEN EmitReady([ClientState EXCEPT !.isReady = TRUE], f.data)
                  ELSE ClientState
       IN IF f.evt = "ERROR"
          THEN IF errorListener
               THEN EmitCommand([st1 EXCEPT !.emitted = @ \cup {"error"}], f)
               ELSE [st1 EXCEPT !.raised = TRUE]
          ELSE EmitCommand(st1, f)
  ELSE ClientState

HandleIncoming(f) ==
  IF f.op = OP_CLOSE THEN [ClientState EXCEPT !.emitted = {"disconnected"}]
  ELSE IF f.op = OP_PING THEN [ClientState EXCEPT !.emitted = {"ping"}]
  ELSE IF f.op = OP_FRAME
  THEN LET st1 == IF f.evt = "READY"
                  THEN EmitReady([ClientState EXCEPT !.isReady = TRUE], f.data)
                  ELSE ClientState
       IN IF f.evt = "ERROR"
          THEN \* this.emit('error', ...) throws when nobody listens for 'error'
               IF errorListener
               THEN EmitCommand([st1 EXCEPT !.emitted = @ \cup {"error"}], f)
               ELSE [st1 EXCEPT !.raised = TRUE]
          ELSE EmitCommand(st1, f)
  ELSE ClientState

\* The record of a step that handled no message.
Called(op, w, warns) ==
  [call |-> op, frame |-> NoMessage, emitted |-> {}, raised |-> FALSE,
   settled |-> {}, wrote |-> w, warned |-> warns]

InitClient ==
  /\ isReady = FALSE
  /\ loginState = "none"
  /\ loginData = "none"
  /\ sock = "none"
  /\ readyListener = FALSE
  /\ errorListener \in BOOLEAN
  /\ requests = <<>>
  /\ timers = 0
  /\ destroyState = "none"
  /\ clearWritten = FALSE
  /\ last = Called("none", NoFrame, FALSE)

\* login(): up to await this.connection.connect().
Login ==
  /\ loginState = "none"
  /\ loginState' = "connecting"
  /\ sock' = "connecting"
  /\ last' = Called("login", NoFrame, FALSE)
  /\ UNCHANGED <<isReady, loginData, readyListener, errorListener, requests, timers,
                 destroyState, clearWritten, codecVars, connVars, builderVars>>

\* connect() resolves: login registers once('ready') and sends the handshake.
LoginConnected ==
  /\ loginState = "connecting"
  /\ sock = "connecting"
  /\ sock' = "open"
  /\ readyListener' = TRUE
  /\ last' = Called("login", SocketWrite(HandshakeFrame), FALSE)
  /\ loginState' = "awaitReady"
  /\ UNCHANGED <<isReady, loginData, errorListener, requests, timers, destroyState,
                 clearWritten, codecVars, connVars, builderVars>>

\* connect() rejects: so does login.
LoginConnectFailed ==
  /\ loginState = "connecting"
  /\ sock = "connecting"
  /\ sock' = "destroyed"
  /\ loginState' = "rejected"
  /\ last' = Called("login", NoFrame, FALSE)
  /\ UNCHANGED <<isReady, loginData, readyListener, errorListener, requests, timers,
                 destroyState, clearWritten, codecVars, connVars, builderVars>>

\* The data callback registered in the constructor: handleIncoming(op, data).
Receive(f) ==
  /\ sock = "open"
  /\ LET st == HandleIncoming(f) IN
     /\ isReady' = st.isReady
     /\ loginState' = st.loginState
     /\ loginData' = st.loginData
     /\ readyListener' = st.readyListener
     /\ requests' = st.requests
     /\ timers' = st.timers
     /\ last' = [call |-> "handleIncoming", frame |-> f, emitted |-> st.emitted,
                 raised |-> st.raised, settled |-> st.settled, wrote |-> NoFrame,
                 warned |-> FALSE]
  /\ UNCHANGED <<sock, errorListener, destroyState, clearWritten, codecVars, connVars, builderVars>>

SetActivityUnguarded(a) ==
  /\ last' = Called("setActivity", SocketWrite(SetActivityFrame(a)), FALSE)
  /\ UNCHANGED <<isReady, loginState, loginData, sock, readyListener, errorListener,
                 requests, timers, destroyState, clearWritten, codecVars, connVars, builderVars>>

\* setActivity(activity)
SetActivity(a) ==
  /\ last' = IF ~isReady
             THEN Called("setActivity", NoFrame, TRUE)
             ELSE Called("setActivity", SocketWrite(SetActivityFrame(a)), FALSE)
  /\ UNCHANGED <<isReady, loginState, loginData, sock, readyListener, errorListener,
                 requests, timers, destroyState, clearWritten, codecVars, connVars, builderVars>>

\* request(cmd, args), as called by authorize and authenticate.
Request(cmd) ==
  /\ Len(requests) < MaxRequests
  /\ requests' = Append(requests, [on |-> cmd, status |-> "pending", data |-> "none"])
  /\ last' = Called("request", SocketWrite(RequestFrame(cmd, Len(requests) + 1)), FALSE)
  /\ UNCHANGED <<isReady, loginState, loginData, sock, readyListener, errorListener,
                 timers, destroyState, clearWritten, codecVars, connVars, builderVars>>

\* destroy(): up to the await of the 100 ms timeout.
Destroy ==
  /\ destroyState = "none"
  /\ last' = Called("destroy", SocketWrite(ClearActivityFrame), FALSE)
  /\ clearWritten' = (SocketWrite(ClearActivityFrame) = ClearActivityFrame)
  /\ destroyState' = "waiting"
  /\ UNCHANGED <<isReady, loginState, loginData, sock, readyListener, errorListener,
                 requests, timers, codecVars, connVars, builderVars>>

\* destroy(): after the timeout, this.connection.destroy().
DestroyFinish ==
  /\ destroyState = "waiting"
  /\ destroyState' = "done"
  /\ sock' = IF sock = "none" THEN "none" ELSE "destroyed"
  /\ last' = Called("destroy", NoFrame, FALSE)
  /\ UNCHANGED <<isReady, loginState, loginData, readyListener, errorListener,
                 requests, timers, clearWritten, codecVars, connVars, builderVars>>

\* A heartbeat interval fires: ping().
Heartbeat ==
  /\ timers > 0
  /\ last' = Called("ping", SocketWrite(PingFrame), FALSE)
  /\ UNCHANGED <<isReady, loginState, loginData, sock, readyListener, errorListener,
                 requests, timers, destroyState, clearWritten, codecVars, connVars, builderVars>>

Next ==
  \/ Login
  \/ LoginConnected
  \/ LoginConnectFailed
  \/ \E f \in PeerMessages : Receive(f)
  \/ \E a \in Activities : SetActivity(a)
  \/ \E cmd \in RequestCommands : Request(cmd)
  \/ Destroy
  \/ DestroyFinish
  \/ Heartbeat

(***************************************************************************)
(* SpecBuilder: PresenceBuilder. A string is modelled by its length, a     *)
(* field that may be undefined by a sequence of no or one value.           *)
(***************************************************************************)
MaxTextLength == 128
MaxLabelLength == 32
MaxUrlLength == 512
MaxButtons == 2

None == <<>>
Some(x) == <<x>>
IsSome(m) == m # <<>>

\* Arguments of the calls: lengths of the strings given to setDetails and
\* setState, tooltip texts, buttons, lists of buttons, party, secrets.
TextArgs == {0, MaxTextLength, MaxTextLength + 1}
StateArgs == {MaxTextLength, MaxTextLength + 1}
TooltipArgs == {None, Some(MaxTextLength), Some(MaxTextLength + 1)}
AssetsArgs == [large_text : TooltipArgs, small_text : TooltipArgs]
ButtonArgs ==
  {[label |-> MaxLabelLength, url |-> MaxUrlLength],
   [label |-> MaxLabelLength + 1, url |-> MaxUrlLength],
   [label |-> MaxLabelLength, url |-> MaxUrlLength + 1]}
ButtonLists == UNION {SeqsOfLen(ButtonArgs, n) : n \in 0..(MaxButtons + 1)}
PartyArgs == {[id |-> "party", size |-> <<1, 2>>], [id |-> "party", size |-> <<3, 2>>]}
\* Milliseconds since the epoch, and the objects given to setTimestamps.
TimeArgs == {1, 2, 3}
MaybeTimes == {None} \cup {Some(t) : t \in TimeArgs}
TimestampsArgs == [start : MaybeTimes, end : MaybeTimes]
\* The argument of setStartTimestamp and setEndTimestamp: a number, or a Date
\* of that time.
DateArgs == [isDate : BOOLEAN, time : TimeArgs]
SecretsArgs == {[join |-> "secret"]}

\* private payload: Partial<ActivityPayload> = {}
EmptyPayload ==
  [details |-> None, state |-> None, timestamps |-> None, assets |-> None,
   buttons |-> None, party |-> None, secrets |-> None]

\* The outcome of a call: the payload after it and whether it threw.
Ok(p) == [payload |-> p, threw |-> FALSE]
Throw(p) == [payload |-> p, threw |-> TRUE]

\* text && text.length > 128
TooLong(t) == IsSome(t) /\ t[1] # 0 /\ t[1] > MaxTextLength

\* this.payload.buttons?.length
HasButtons(p) == IsSome(p.buttons) /\ Len(p.buttons[1]) > 0

\* this.payload.party || this.payload.secrets
HasPartyOrSecrets(p) == IsSome(p.party) \/ IsSome(p.secrets)

SetDetailsBelowLimit(p, n) ==
  IF n >= MaxTextLength THEN Throw(p) ELSE Ok([p EXCEPT !.details = Some(n)])

SetDetails(p, n) ==
  IF n > MaxTextLength THEN Throw(p) ELSE Ok([p EXCEPT !.details = Some(n)])

SetState(p, n) ==
  IF n > MaxTextLength THEN Throw(p) ELSE Ok([p EXCEPT !.state = Some(n)])

SetTimestamps(p, ts) == Ok([p EXCEPT !.timestamps = Some(ts)])

\* { ...this.payload.timestamps }
SpreadTimestamps(p) ==
  IF IsSome(p.timestamps) THEN p.timestamps[1] ELSE [start |-> None, end |-> None]

\* date instanceof Date ? date.getTime() : date
Millis(date) == IF date.isDate THEN date.time ELSE date.time

SetStartTimestamp(p, date) ==
  Ok([p EXCEPT !.timestamps = Some([SpreadTimestamps(p) EXCEPT !.start = Some(Millis(date))])])

SetEndTimestamp(p, date) ==
  Ok([p EXCEPT !.timestamps = Some([SpreadTimestamps(p) EXCEPT !.end = Some(Millis(date))])])

SetAssets(p, a) ==
  IF TooLong(a.large_text) \/ TooLong(a.small_text) THEN Throw(p)
  ELSE Ok([p EXCEPT !.assets = Some(a)])

\* { ...this.payload.assets }
SpreadAssets(p) ==
  IF IsSome(p.assets) THEN p.assets[1] ELSE [large_text |-> None, small_text |-> None]

SetLargeImage(p, t) ==
  IF TooLong(t) THEN Throw(p)
  ELSE Ok([p EXCEPT !.assets = Some([SpreadAssets(p) EXCEPT !.large_text = t])])

SetSmallImage(p, t) ==
  IF TooLong(t) THEN Throw(p)
  ELSE Ok([p EXCEPT !.assets = Some([SpreadAssets(p) EXCEPT !.small_text = t])])

SetParty(p, party) ==
  IF HasButtons(p) THEN Throw(p) ELSE Ok([p EXCEPT !.party = Some(party)])

SetSecrets(p, secrets) ==
  IF HasButtons(p) THEN Throw(p) ELSE Ok([p EXCEPT !.secrets = Some(secrets)])

\* validateButton(label, url) returns normally
ValidButton(b) == ~(b.label > MaxLabelLength) /\ ~(b.url > MaxUrlLength)

SetButtons(p, bs) ==
  IF Len(bs) > MaxButtons THEN Throw(p)
  ELSE IF HasPartyOrSecrets(p) THEN Throw(p)
  ELSE IF \E i \in 1..Len(bs) : ~ValidButton(bs[i]) THEN Throw(p)
  ELSE Ok([p EXCEPT !.buttons = Some(bs)])

AddButtonUnlimited(p, b) ==
  LET p1 == IF IsSome(p.buttons) THEN p ELSE [p EXCEPT !.buttons = Some(<<>>)]
  IN IF ~ValidButton(b) THEN Throw(p1)
     ELSE Ok([p1 EXCEPT !.buttons = Some(Append(p1.buttons[1], b))])

AddButton(p, b) ==
  LET p1 == IF IsSome(p.buttons) THEN p ELSE [p EXCEPT !.buttons = Some(<<>>)]
  IN IF Len(p1.buttons[1]) >= MaxButtons THEN Throw(p1)
     ELSE IF ~ValidButton(b) THEN Throw(p1)
     ELSE Ok([p1 EXCEPT !.buttons = Some(Append(p1.buttons[1], b))])

BuildUnchecked(p) == Ok(p)

Build(p) ==
  IF HasButtons(p) /\ HasPartyOrSecrets(p) THEN Throw(p) ELSE Ok(p)

InitBuilder ==
  /\ thePayload = EmptyPayload
  /\ built = FALSE
  /\ result = [op |-> "none", arg |-> None, threw |-> FALSE]

\* A call of a setter with argument arg and outcome out.
Call(op, arg, out) ==
  /\ thePayload' = out.payload
  /\ result' = [op |-> op, arg |-> arg, threw |-> out.threw]
  /\ UNCHANGED <<built, codecVars, connVars, clientVars>>

CallSetDetails == \E n \in TextArgs : Call("setDetails", n, SetDetails(thePayload, n))
CallSetState == \E n \in StateArgs : Call("setState", n, SetState(thePayload, n))
CallSetAssets == \E a \in AssetsArgs : Call("setAssets", a, SetAssets(thePayload, a))
CallSetLargeImage ==
  \E t \in TooltipArgs : Call("setLargeImage", t, SetLargeImage(thePayload, t))
CallSetSmallImage ==
  \E t \in TooltipArgs : Call("setSmallImage", t, SetSmallImage(thePayload, t))
CallSetParty == \E x \in PartyArgs : Call("setParty", x, SetParty(thePayload, x))
CallSetSecrets == \E x \in SecretsArgs : Call("setSecrets", x, SetSecrets(thePayload, x))
CallSetButtons == \E bs \in ButtonLists : Call("setButtons", bs, SetButtons(thePayload, bs))
CallAddButton == \E x \in ButtonArgs : Call("addButton", x, AddButton(thePayload, x))

CallSetTimestamps ==
  \E ts \in TimestampsArgs : Call("setTimestamps", ts, SetTimestamps(thePayload, ts))
CallSetStartTimestamp ==
  \E d \in DateArgs : Call("setStartTimestamp", d, SetStartTimestamp(thePayload, d))
CallSetEndTimestamp ==
  \E d \in DateArgs : Call("setEndTimestamp", d, SetEndTimestamp(thePayload, d))

\* build(): what it returns is this.payload itself.
CallBuild ==
  LET out == Build(thePayload) IN
  /\ thePayload' = out.payload
  /\ built' = (built \/ ~out.threw)
  /\ result' = [op |-> "build", arg |-> None, threw |-> out.threw]
  /\ UNCHANGED <<codecVars, connVars, clientVars>>

NextBuilder ==
  \/ CallSetDetails
  \/ CallSetState
  \/ CallSetAssets
  \/ CallSetLargeImage
  \/ CallSetSmallImage
  \/ CallSetParty
  \/ CallSetSecrets
  \/ CallSetButtons
  \/ CallAddButton
  \/ CallBuild

(***************************************************************************)
(* The specifications.                                                     *)
(***************************************************************************)
\* The Client before login(), for the specifications that do not exercise it.
InitClientIdle == InitClient /\ errorListener = FALSE

InitSpecCodec == InitCodec /\ InitConnect /\ InitClientIdle /\ InitBuilder

SpecCodec == InitSpecCodec /\ [][NextCodec]_vars

InitSpecOversized == InitOversized /\ InitConnect /\ InitClientIdle /\ InitBuilder

SpecOversized == InitSpecOversized /\ [][NextCodec]_vars

InitSpecConnect == InitCodecIdle /\ InitConnect /\ InitClientIdle /\ InitBuilder

SpecConnect == InitSpecConnect /\ [][NextConnect]_vars

InitSpec == InitCodecIdle /\ InitConnect /\ InitClient /\ InitBuilder

Spec == InitSpec /\ [][Next]_vars

\* What the event loop guarantees: a connection attempt ends, the timeout of
\* destroy() fires, a running heartbeat interval fires. Nothing is assumed of
\* the peer or of the application.
Fairness ==
  /\ WF_vars(LoginConnected \/ LoginConnectFailed)
  /\ WF_vars(DestroyFinish)
  /\ WF_vars(Heartbeat)

SpecLive == Spec /\ Fairness

\* The three setters of timestamps and build(): these setters read and write
\* no other field of the payload, and no other method reads timestamps.
NextTimestamps ==
  \/ CallSetTimestamps
  \/ CallSetStartTimestamp
  \/ CallSetEndTimestamp
  \/ CallBuild

InitSpecBuilder == InitCodecIdle /\ InitConnect /\ InitClientIdle /\ InitBuilder

SpecBuilder == InitSpecBuilder /\ [][NextBuilder]_vars

SpecTimestamps == InitSpecBuilder /\ [][NextTimestamps]_vars

(***************************************************************************)
(* Claims about the codec (checked under SpecCodec).                       *)
(***************************************************************************)
AllArrived == pos = Len(stream)

IsPrefix(s, t) == Len(s) <= Len(t) /\ SubSeq(t, 1, Len(s)) = s

callbackRaised == raises > 0


\* C1: once the whole byte stream has arrived, in 'data' events of whatever
\* sizes, the data callback (returning normally) has been invoked with exactly
\* the (opcode, payload) pairs, in order, that one 'data' event carrying the
\* whole stream yields from an empty buffer, and the same bytes are left over.
C1_ChunkingEquivalence ==
  (AllArrived /\ ~callbackRaised) =>
    /\ calls = OnData(<<>>, stream, 0).calls
    /\ buffer = OnData(<<>>, stream, 0).buffer

\* A stream of two frames has arrived whole, some event having ended in the
\* middle of a frame, and both frames were handed to the callback.
C1_Witness ==
  /\ AllArrived /\ fragmented /\ ~callbackRaised
  /\ Len(frames) = 2 /\ Len(calls) = 2

\* C2: for every opcode and payload, once the bytes written by send(op,
\* payload) have arrived the data callback has been invoked exactly once, with
\* that opcode and a payload equal to the original; before the last byte has
\* arrived it has not been invoked.
C2_RoundTrip ==
  (Len(frames) = 1 /\ ~callbackRaised) =>
    /\ AllArrived => calls = frames
    /\ ~AllArrived => calls = <<>>

\* A PONG frame whose payload holds an escaped quote in a key and a two-byte
\* character in a value has made the round trip.
C2_Witness ==
  /\ AllArrived /\ ~callbackRaised
  /\ frames = << <<OP_PONG, << <<<<98, 34>>, <<97, 233>>>> >>>> >>
  /\ calls = frames

\* C3: every frame is handed to the dispatcher exactly once, in arrival order,
\* only after all its 8 + length bytes have arrived, whatever the dispatcher
\* does (a raising handler included): the invocations are a prefix of the
\* frames, cover no more than the bytes that arrived, and are all of the frames
\* once every byte has arrived and the process still runs.
C3_ExactlyOnceInOrder ==
  /\ IsPrefix(calls, frames)
  /\ IsPrefix(calls, frames) => Len(Wire(SubSeq(frames, 1, Len(calls)))) <= pos
  /\ (AllArrived /\ alive) => calls = frames

\* The buffer starts with a complete header that announces 2^30 bytes.
Oversized(buf) == Len(buf) >= 8 /\ ReadUInt32LE(buf, 4) = ReadUInt32LE(OversizedHeader, 4)

\* C23: once the buffer starts with a header that announces a payload larger
\* than the protocol permits, the decoder does not go on accumulating the
\* bytes that arrive: the connection is closed with a decode error, so no
\* 'data' event makes the buffer longer.
C23_OversizedLengthNotBuffered ==
  [][ Oversized(buffer) => Len(buffer') <= Len(buffer) ]_vars

(***************************************************************************)
(* Claims about the connector (checked under SpecConnect).                 *)
(***************************************************************************)
AllNotFound(outcomes) == \A i \in 1..Len(outcomes) : outcomes[i] = "ENOENT"

SocketsOf(c) == {s \in 1..Len(sockets) : sockets[s].call = c}

\* C4: a connect() call tries the indices 0, 1, 2, ... in that order, each
\* once, and none above 9; while every attempt so far has failed with ENOENT
\* and fewer than ten have, the call is still pending; it fails with the
\* endpoints-exhausted error exactly when the attempts at 0..9 have all failed
\* with ENOENT; and ENOENT itself is never the error the caller gets.
C4_RetryOverIndices ==
  \A c \in 1..Len(connectCalls) :
    LET call == connectCalls[c] IN
    /\ \A i \in 1..Len(call.attempts) : call.attempts[i] = i - 1
    /\ \A i \in 1..Len(call.attempts) : call.attempts[i] <= 9
    /\ Cardinality(SocketsOf(c)) = Len(call.attempts)
    /\ (AllNotFound(call.outcomes) /\ Len(call.outcomes) < 10) =>
         (call.status = "pending" /\ Len(call.attempts) = Len(call.outcomes) + 1)
    /\ (AllNotFound(call.outcomes) /\ Len(call.outcomes) = 10) =>
         (call.status = "rejected" /\ call.error = "EXHAUSTED")
    /\ call.error = "EXHAUSTED" =>
         /\ call.status = "rejected"
         /\ call.attempts = <<0, 1, 2, 3, 4, 5, 6, 7, 8, 9>>
         /\ AllNotFound(call.outcomes) /\ Len(call.outcomes) = 10
    /\ call.error # "ENOENT"

\* A call has been rejected as exhausted after its ten attempts.
C4_Witness ==
  \E c \in 1..Len(connectCalls) :
    /\ connectCalls[c].status = "rejected"
    /\ connectCalls[c].error = "EXHAUSTED"
    /\ Len(connectCalls[c].attempts) = 10
    /\ Cardinality(SocketsOf(c)) = 10

\* C5: when an attempt of a connect() call fails with an error other than
\* ENOENT, that attempt is the call's last one: the call is rejected with that
\* very error and has opened no socket after the one that failed.
C5_OtherErrorFailsAtOnce ==
  \A c \in 1..Len(connectCalls) :
    LET call == connectCalls[c] IN
    \A i \in 1..Len(call.outcomes) :
      call.outcomes[i] \notin {"ENOENT", "connect"} =>
        /\ i = Len(call.outcomes)
        /\ Len(call.attempts) = i
        /\ Cardinality(SocketsOf(c)) = i
        /\ call.status = "rejected"
        /\ call.error = call.outcomes[i]

\* A call has been rejected with EACCES at index 3, after three retries.
C5_Witness ==
  \E c \in 1..Len(connectCalls) :
    /\ connectCalls[c].outcomes = <<"ENOENT", "ENOENT", "ENOENT", "EACCES">>
    /\ connectCalls[c].status = "rejected"
    /\ connectCalls[c].error = "EACCES"
    /\ connectCalls[c].attempts = <<0, 1, 2, 3>>

(***************************************************************************)
(* Claims about the Client (checked under Spec).                           *)
(***************************************************************************)
\* The step handled the message last'.frame.
Handles == last'.call = "handleIncoming"
IsReadyFrame(f) == f.op = OP_FRAME /\ f.evt = "READY"

\* Everything of the Client but the record of the last step.
clientState ==
  <<isReady, loginState, loginData, sock, readyListener, errorListener,
    requests, timers, destroyState, clearWritten>>

\* C6: once login has sent the handshake, the client is not ready and login
\* is not settled for as long as no READY frame is handled: only the handling
\* of a FRAME message with evt READY makes the client ready or settles login,
\* and handling one makes the client ready and resolves login with the data
\* of that very message.
C6_ReadyResolvesLogin ==
  [][ /\ (loginState = "awaitReady") => ~isReady
      /\ (loginState = "awaitReady" /\ loginState' # "awaitReady")
           => Handles /\ IsReadyFrame(last'.frame)
      /\ (~isReady /\ isReady') => Handles /\ IsReadyFrame(last'.frame)
      /\ (loginState = "awaitReady" /\ Handles /\ IsReadyFrame(last'.frame))
           => /\ isReady'
              /\ loginState' = "resolved"
              /\ loginData' = last'.frame.data
              /\ LoginPromise \in last'.settled ]_vars

\* The READY frame of alice has just resolved login with alice.
C6_Witness ==
  /\ last.call = "handleIncoming"
  /\ last.frame = ReadyMessage("alice")
  /\ LoginPromise \in last.settled
  /\ loginState = "resolved"
  /\ loginData = "alice"
  /\ isReady

\* C7: a call of setActivity made while the client is not ready puts nothing
\* on the socket and leaves the state of the client as it was.
C7_SetActivityNoOpBeforeReady ==
  [][ (~isReady /\ last'.call = "setActivity")
        => last'.wrote = NoFrame /\ UNCHANGED clientState ]_vars

\* setActivity has just been called on an open socket, after the handshake
\* and before READY, and has written nothing.
C7_Witness ==
  /\ last.call = "setActivity"
  /\ last.warned
  /\ last.wrote = NoFrame
  /\ loginState = "awaitReady"
  /\ sock = "open"
  /\ ~isReady

\* C8: no step puts a FRAME-opcode command on the socket while the client is
\* not ready.
C8_NoCommandBeforeReady ==
  [][ (last'.wrote.op = OP_FRAME) => isReady ]_vars

\* The reply a step handled: a FRAME message that carries no event.
IsReply(f) == f.op = OP_FRAME /\ f.evt = "none"
Pending(r) == r \in 1..Len(requests) /\ requests[r].status = "pending"

\* C9: handling a reply resolves the pending request whose nonce the reply
\* carries with the data of the reply, and leaves every other request as it
\* was, whatever the order the requests were sent in and whatever their
\* commands.
C9_RepliesMatchedByNonce ==
  [][ (Handles /\ IsReply(last'.frame)) =>
        \A r \in 1..Len(requests) :
          IF Pending(r) /\ last'.frame.nonce = r
          THEN /\ requests'[r].status = "resolved"
               /\ requests'[r].data = last'.frame.data
               /\ r \in last'.settled
          ELSE /\ requests'[r] = requests[r]
               /\ r \notin last'.settled ]_vars

\* Two requests for the same command are pending together and the reply to
\* the second has just been handled before any reply to the first: the
\* second is resolved with the data of that reply, the first still pending.
C9_Witness ==
  /\ Len(requests) = 2
  /\ last.call = "handleIncoming"
  /\ last.frame = ReplyMessage(requests[1].on, 2, "r2")
  /\ last.settled = {2}
  /\ requests[1].status = "pending"
  /\ requests[2].status = "resolved" /\ requests[2].data = "r2"

\* Handling the message has no effect that can be observed.
NoEffect ==
  /\ UNCHANGED clientState
  /\ last'.emitted = {}
  /\ last'.settled = {}
  /\ ~last'.raised

\* C10 (as stated): handling a reply frame, an ERROR reply included, whose
\* nonce is that of no pending request settles no request, changes neither
\* the requests nor the ready state, and raises and emits no error.
C10_UnmatchedReplyIgnored ==
  [][ (/\ Handles
       /\ last'.frame.op = OP_FRAME
       /\ last'.frame.evt \in {"none", "ERROR"}
       /\ ~Pending(last'.frame.nonce)) => NoEffect ]_vars

\* C10 (amended): handling a reply frame whose nonce is that of no pending
\* request settles no request and changes neither the requests nor the ready
\* state; when the frame is not an ERROR event nothing is emitted or raised,
\* and when it is one the error is surfaced: emitted as an 'error' event to
\* the listener for it, thrown when there is none.
C10_UnmatchedReplySettlesNothing ==
  [][ (/\ Handles
       /\ last'.frame.op = OP_FRAME
       /\ last'.frame.evt \in {"none", "ERROR"}
       /\ ~Pending(last'.frame.nonce))
      => /\ UNCHANGED clientState
         /\ last'.settled = {}
         /\ IF last'.frame.evt = "none" THEN last'.emitted = {} /\ ~last'.raised
            ELSE IF errorListener THEN last'.emitted = {"error"} /\ ~last'.raised
            ELSE last'.emitted = {} /\ last'.raised ]_vars

\* A reply for AUTHORIZE with a nonce of no request has just been handled
\* while a request for AUTHORIZE was pending, and the request still is.
C10_Witness ==
  /\ last.call = "handleIncoming"
  /\ last.frame = ReplyMessage("AUTHORIZE", OtherNonce, "r1")
  /\ last.settled = {}
  /\ \E r \in 1..Len(requests) :
       /\ requests[r].on = "AUTHORIZE"
       /\ requests[r].status = "pending"

\* C11: a request is settled at most once: the step that settles it removes
\* its handler, a settled request has no handler, and no later step, the
\* handling of another frame with its nonce included, changes its state or
\* its value.
C11_SettledAtMostOnce ==
  [][ \A r \in 1..Len(requests) :
        /\ (requests[r].status = "pending") <=> (requests[r].on # "none")
        /\ (requests[r].status # "pending") =>
             /\ requests'[r] = requests[r]
             /\ r \notin last'.settled
        /\ (requests[r].status = "pending" /\ requests'[r].status # "pending") =>
             /\ requests'[r].on = "none"
             /\ last'.settled = {r}
             /\ last'.frame.nonce = r ]_vars

\* The first request was resolved with r1, and a second reply with its nonce,
\* carrying r2, has just been handled and has settled nothing.
C11_Witness ==
  /\ last.call = "handleIncoming"
  /\ last.frame = ReplyMessage("AUTHORIZE", 1, "r2")
  /\ last.settled = {}
  /\ Len(requests) >= 1
  /\ requests[1] = [on |-> "none", status |-> "resolved", data |-> "r1"]

\* C12: handling an ERROR frame whose nonce is that of a pending request
\* rejects that request with the error and nothing else: every other request
\* is as it was, the ready state and the socket are unchanged, and no general
\* 'error' event is emitted or thrown.
C12_ErrorRejectsOnlyItsRequest ==
  [][ (/\ Handles
       /\ last'.frame.op = OP_FRAME
       /\ last'.frame.evt = "ERROR"
       /\ Pending(last'.frame.nonce))
      => /\ requests'[last'.frame.nonce].status = "rejected"
         /\ requests'[last'.frame.nonce].data = last'.frame.data
         /\ \A r \in 1..Len(requests) :
              r # last'.frame.nonce => requests'[r] = requests[r]
         /\ UNCHANGED <<isReady, sock>>
         /\ "error" \notin last'.emitted
         /\ ~last'.raised ]_vars

\* The connection has been torn down: the message just handled is a CLOSE,
\* or destroy() has been called.
TornDown == last.frame.op = OP_CLOSE \/ destroyState # "none"

\* C13: a request that is pending when the connection is torn down does not
\* stay pending forever.
C13_PendingDrainedAtTeardown ==
  \A r \in 1..MaxRequests : [](TornDown /\ Pending(r) => <>(~Pending(r)))

\* C14: once a CLOSE message has been handled the client is closed: it is
\* not ready, its socket is torn down, and the step after it puts no command
\* frame on the socket.
C14_ClosedAfterClose ==
  [][ /\ (Handles /\ last'.frame.op = OP_CLOSE)
           => ~isReady' /\ sock' \notin {"connecting", "open"}
      /\ (last.frame.op = OP_CLOSE) => last'.wrote.op # OP_FRAME ]_vars

\* The socket is one that can be written to and closed.
HasSocket == sock \in {"connecting", "open"}

\* C15: destroy() first puts the clear-presence frame on the socket and
\* leaves the socket as it is; it closes the socket only in its last step,
\* after the grace period, when the frame has been written; and when it
\* completes no socket is left open.
C15_DestroyClearsThenCloses ==
  [][ /\ (destroyState = "none" /\ destroyState' = "waiting")
           => /\ sock' = sock
              /\ HasSocket => last'.wrote = ClearActivityFrame /\ clearWritten'
      /\ (last'.call = "destroy" /\ HasSocket /\ ~HasSocket')
           => destroyState = "waiting" /\ clearWritten
      /\ (destroyState = "waiting" /\ destroyState' = "done") => ~HasSocket' ]_vars

(***************************************************************************)
(* Claims about PresenceBuilder (checked under SpecBuilder).               *)
(***************************************************************************)
\* The payload has a non-empty buttons list together with party or secrets.
Conflict(p) == HasButtons(p) /\ HasPartyOrSecrets(p)

\* C16: build() throws exactly when the payload has a non-empty buttons list
\* together with party or secrets, whatever calls came before, so that the
\* payload it returns never has both.
C16_BuildRejectsConflict ==
  [][ (result'.op = "build")
        => /\ result'.threw <=> Conflict(thePayload)
           /\ ~result'.threw => ~Conflict(thePayload') ]_vars

\* build() has just thrown on a payload whose party was set first and whose
\* button was added afterwards.
C16_Witness ==
  /\ result.op = "build"
  /\ result.threw
  /\ IsSome(thePayload.party)
  /\ HasButtons(thePayload)

\* C17: the call that would set the second of two conflicting fields throws:
\* setParty and setSecrets when the buttons list is non-empty, setButtons and
\* addButton when party or secrets are set.
C17_ConflictRejectedEagerly ==
  [][ /\ (result'.op \in {"setParty", "setSecrets"} /\ HasButtons(thePayload))
           => result'.threw
      /\ (result'.op \in {"setButtons", "addButton"} /\ HasPartyOrSecrets(thePayload))
           => result'.threw ]_vars

\* C18: setDetails and setState throw exactly when the string is longer than
\* 128, leaving the payload as it was, and otherwise store the string.
C18_TextLimitAtCallTime ==
  [][ /\ (result'.op \in {"setDetails", "setState"})
           => /\ result'.threw <=> (result'.arg > 128)
              /\ result'.threw => thePayload' = thePayload
      /\ (result'.op = "setDetails" /\ ~result'.threw)
           => thePayload' = [thePayload EXCEPT !.details = Some(result'.arg)]
      /\ (result'.op = "setState" /\ ~result'.threw)
           => thePayload' = [thePayload EXCEPT !.state = Some(result'.arg)] ]_vars

\* setDetails has just thrown for a string of 129 characters, the details of
\* 128 characters stored before being kept.
C18_Witness ==
  /\ result = [op |-> "setDetails", arg |-> 129, threw |-> TRUE]
  /\ thePayload.details = Some(128)

\* Every length and count of the payload is within its limit.
TextWithin(m, limit) == IsSome(m) => m[1] <= limit
WithinLimits(p) ==
  /\ TextWithin(p.details, 128)
  /\ TextWithin(p.state, 128)
  /\ IsSome(p.assets) => /\ TextWithin(p.assets[1].large_text, 128)
                         /\ TextWithin(p.assets[1].small_text, 128)
  /\ IsSome(p.buttons) =>
       /\ Len(p.buttons[1]) <= 2
       /\ \A i \in 1..Len(p.buttons[1]) :
            p.buttons[1][i].label <= 32 /\ p.buttons[1][i].url <= 512

\* C19: the payload build() has returned is within every length and count
\* limit.
C19_BuiltWithinLimits == built => WithinLimits(thePayload)

\* build() has just returned a payload with every limited field at its limit.
C19_Witness ==
  /\ result.op = "build" /\ ~result.threw /\ built
  /\ thePayload.details = Some(128)
  /\ thePayload.state = Some(128)
  /\ IsSome(thePayload.assets)
  /\ thePayload.assets[1] = [large_text |-> Some(128), small_text |-> Some(128)]
  /\ IsSome(thePayload.buttons)
  /\ Len(thePayload.buttons[1]) = 2

\* C20: once build() has returned the payload, no call on the builder changes
\* it.
C20_BuiltPayloadImmutable ==
  [][ built => thePayload' = thePayload ]_vars

\* The timestamps, when both start and end are set, have end no earlier
\* than start.
TimestampsOrdered(p) ==
  (IsSome(p.timestamps) /\ IsSome(p.timestamps[1].start) /\ IsSome(p.timestamps[1].end))
    => p.timestamps[1].end[1] >= p.timestamps[1].start[1]

\* C21: the payload build() returns never has timestamps with both start and
\* end set and end earlier than start.
C21_TimestampsOrdered ==
  [][ (result'.op = "build" /\ ~result'.threw) => TimestampsOrdered(thePayload') ]_vars

\* C22: setParty throws when the current size is greater than the max size,
\* and the payload build() returns never has a party with current greater
\* than max.
C22_PartySizeWithinMax ==
  [][ /\ (result'.op = "setParty" /\ result'.arg.size[1] > result'.arg.size[2])
           => result'.threw
      /\ (result'.op = "build" /\ ~result'.threw /\ IsSome(thePayload'.party))
           => thePayload'.party[1].size[1] <= thePayload'.party[1].size[2] ]_vars

(***************************************************************************)
(* Further claims about the connector (checked under SpecConnect).         *)
(***************************************************************************)
\* The sockets that have not been destroyed.
LiveSockets == {s \in 1..Len(sockets) : sockets[s].state # "destroyed"}

\* C24: at every point at most one socket is live, and it is the one opened
\* last, which this.socket refers to: every socket of a failed or earlier
\* attempt has been destroyed by the time the next one is opened.
C24_AtMostOneLiveSocket ==
  /\ Cardinality(LiveSockets) <= 1
  /\ LiveSockets \subseteq {Len(sockets)}
  /\ LiveSockets \subseteq {socket}

\* A second connect() was made while the socket of the first call's retry
\* was live: three sockets were opened and only the last one is live.
C24_Witness ==
  /\ Len(connectCalls) = 2
  /\ Len(connectCalls[1].attempts) = 2
  /\ connectCalls[1].outcomes = <<"ENOENT", "connect">>
  /\ SocketsOf(2) = {3}
  /\ LiveSockets = {3}

\* The open socket s emits 'error' with an I/O error code.
IOError(s) == sockets[s].state = "open" /\ \E code \in IOErrorCodes : SocketError(s, code)

\* C25: an I/O error on a socket whose connect() has succeeded starts no
\* retry (no socket is opened, no index is tried, no connect() call changes)
\* and is delivered to a listener: it is not left without a handler.
C25_LateErrorHandledWithoutRetry ==
  [][ \A s \in 1..Len(sockets) :
        IOError(s) => /\ Len(sockets') = Len(sockets)
                      /\ socket' = socket
                      /\ connectCalls' = connectCalls
                      /\ ~uncaught' ]_vars

(***************************************************************************)
(* Further claims about the Client (checked under Spec and SpecLive).      *)
(***************************************************************************)
\* C26: the heartbeat timer is started by the handling of READY and by
\* nothing else, no timer is left running once the connection is torn down
\* by a CLOSE message or by destroy(), and a PING frame is put on the socket
\* only while the client is ready and not torn down.
C26_PingOnlyWhileReady ==
  [][ /\ (timers' > timers) => Handles /\ IsReadyFrame(last'.frame)
      /\ TornDown' => timers' = 0
      /\ (last'.wrote.op = OP_PING) => isReady /\ ~TornDown ]_vars

\* The number of reply handlers registered for the command c, and the number
\* of pending requests that were made for it.
HandlersFor(rq, c) == Cardinality({r \in 1..Len(rq) : rq[r].on = c})
PendingFor(rq, c) ==
  Cardinality({r \in 1..Len(rq) : rq[r].status = "pending" /\ rq[r].on = c})

\* C27: for every command the number of registered reply handlers is the
\* number of pending requests for it, and every pending request has its
\* handler: request(c) adds one handler for c, and the step that resolves or
\* rejects a request removes one handler of the command of the reply.
C27_HandlersMatchPending ==
  [][ /\ \A c \in RequestCommands : HandlersFor(requests', c) = PendingFor(requests', c)
      /\ \A r \in 1..Len(requests') :
           requests'[r].status = "pending" => requests'[r].on \in RequestCommands
      /\ \A c \in RequestCommands :
           (last'.call = "request" /\ requests'[Len(requests')].on = c)
             => HandlersFor(requests', c) = HandlersFor(requests, c) + 1
      /\ \A r \in 1..Len(requests) :
           (Pending(r) /\ r \in last'.settled)
             => /\ requests[r].on = last'.frame.cmd
                /\ HandlersFor(requests', last'.frame.cmd)
                     = HandlersFor(requests, last'.frame.cmd) - 1 ]_vars

\* Two AUTHORIZE requests were made; the first has just been rejected by an
\* ERROR reply, and one handler, that of the second, is left for AUTHORIZE.
C27_Witness ==
  /\ last.call = "handleIncoming"
  /\ last.frame = ErrorMessage("AUTHORIZE", 1)
  /\ last.settled = {1}
  /\ Len(requests) = 2
  /\ requests[2].status = "pending"
  /\ HandlersFor(requests, "AUTHORIZE") = 1
  /\ PendingFor(requests, "AUTHORIZE") = 1

(***************************************************************************)
(* Further claims about the codec (checked under SpecCodec).               *)
(***************************************************************************)
\* The bytes are the frames fs back to back, nothing between or after them:
\* each is its opcode, the byte length of its encoded payload, both as
\* 32-bit little-endian numbers, and the encoded payload itself.
RECURSIVE WellFramed(_, _)
WellFramed(bytes, fs) ==
  IF fs = <<>> THEN bytes = <<>>
  ELSE /\ Len(bytes) >= 8
       /\ LET length == ReadUInt32LE(bytes, 4)
              encoded == Utf8Encode(JSONStringify(fs[1][2]))
          IN /\ ReadUInt32LE(bytes, 0) = fs[1][1]
             /\ length = Len(encoded)
             /\ Len(bytes) >= 8 + length
             /\ SubSeq(bytes, 9, 8 + length) = encoded
             /\ WellFramed(SubSeq(bytes, 9 + length, Len(bytes)), Tail(fs))

\* C28: the bytes written by successive calls of send() are the frames one
\* after the other, each whole: the length field of every frame is the exact
\* byte length of the encoded payload that follows it, and the header and
\* the payload of a frame are adjacent on the wire.
C28_LengthIsByteLength == WellFramed(stream, frames)

\* Two frames were sent and have arrived; the payload of the first holds a
\* two-byte character, so its byte length is more than its length in
\* characters.
C28_Witness ==
  /\ AllArrived
  /\ Len(frames) = 2
  /\ frames[1] = <<OP_CLOSE, << <<<<98, 34>>, <<97, 233>>>> >>>>
  /\ ReadUInt32LE(stream, 4) = Len(Utf8Encode(JSONStringify(frames[1][2])))
  /\ ReadUInt32LE(stream, 4) > Len(JSONStringify(frames[1][2]))

\* C29: handling a PING message leaves the ready flag, the requests, the
\* login, the timers and the socket as they were, settles nothing, raises
\* nothing and writes nothing: it emits 'ping' and no other event.
C29_PingChangesNoState ==
  [][ (Handles /\ last'.frame.op = OP_PING)
        => /\ UNCHANGED clientState
           /\ last'.emitted = {"ping"}
           /\ last'.settled = {}
           /\ ~last'.raised
           /\ last'.wrote = NoFrame ]_vars

\* A PING message has just been handled by a ready client that has a
\* pending request.
C29_Witness ==
  /\ last.call = "handleIncoming"
  /\ last.frame = OpMessage(OP_PING)
  /\ last.emitted = {"ping"}
  /\ isReady
  /\ sock = "open"
  /\ Pending(1)

\* C30: handling a CLOSE message while login waits for READY, the handshake
\* sent, rejects login: login does not stay pending.
C30_CloseRejectsPendingLogin ==
  [][ (loginState = "awaitReady" /\ Handles /\ last'.frame.op = OP_CLOSE)
        => /\ loginState' = "rejected"
           /\ LoginPromise \in last'.settled ]_vars

(***************************************************************************)
(* Further claims about PresenceBuilder (checked under SpecBuilder).        *)
(***************************************************************************)
\* The calls that validate their argument or the payload.
ValidatingSetters ==
  {"setDetails", "setState", "setAssets", "setLargeImage", "setSmallImage",
   "setParty", "setSecrets", "setButtons", "addButton"}

\* C31: a call of a validating setter that throws leaves the payload exactly
\* as it was before the call, so build() returns what it would have returned
\* without the call.
C31_FailedCallLeavesPayload ==
  [][ (result'.op \in ValidatingSetters /\ result'.threw)
        => thePayload' = thePayload ]_vars

====
